---- MODULE Spec2Model ----
(***************************************************************************)
(* Uptime monitor (src/main.go): the round scheduler startMonitoring, the  *)
(* prober / transition step checkWebsite, the mutex-guarded statusMap and  *)
(* the paginated query handler statusHandler.                              *)
(***************************************************************************)
EXTENDS Integers, Sequences, FiniteSets, TLC

(* ------------------------------ bounds -------------------------------- *)

\* Rounds the scheduler is followed for (initial check plus tick-driven cycles).
MaxRounds == 3
\* Width in bits of Go's int in the model (64 in the build, scaled down).
IntBits == 8

(* --------------------------- strings and ints ------------------------- *)

\* Strings are sequences of one-character strings; Code is the byte value.
Code(c) ==
  CASE c = "-" -> 45
    [] c = "0" -> 48 [] c = "1" -> 49 [] c = "2" -> 50 [] c = "3" -> 51
    [] c = "4" -> 52 [] c = "5" -> 53 [] c = "6" -> 54 [] c = "7" -> 55
    [] c = "8" -> 56 [] c = "9" -> 57
    [] c = "a" -> 97 [] c = "b" -> 98 [] c = "c" -> 99 [] c = "x" -> 120

IsDigit(c) == Code(c) >= 48 /\ Code(c) <= 57

\* Go's string "<": bytewise lexicographic, a proper prefix is smaller.
RECURSIVE StrLess(_, _)
StrLess(a, b) ==
  IF b = <<>> THEN FALSE
  ELSE IF a = <<>> THEN TRUE
  ELSE IF Code(Head(a)) < Code(Head(b)) THEN TRUE
  ELSE IF Code(Head(a)) > Code(Head(b)) THEN FALSE
  ELSE StrLess(Tail(a), Tail(b))

RECURSIVE Pow2(_)
Pow2(n) == IF n = 0 THEN 1 ELSE 2 * Pow2(n - 1)

MaxInt == Pow2(IntBits - 1) - 1
MinInt == 0 - Pow2(IntBits - 1)

\* Two's-complement wrap-around of Go's int arithmetic.
Wrap(x) == ((x + Pow2(IntBits - 1)) % Pow2(IntBits)) - Pow2(IntBits - 1)

\* Go's integer division truncates toward zero (b # 0).
Quo(a, b) ==
  LET abs(x) == IF x < 0 THEN 0 - x ELSE x
      q == abs(a) \div abs(b)
  IN  IF (a < 0) = (b < 0) THEN Wrap(q) ELSE Wrap(0 - q)

\* Magnitude of a digit string, saturating just above the int range.
RECURSIVE DigitsValue(_, _)
DigitsValue(s, acc) ==
  IF s = <<>> THEN acc
  ELSE LET v == acc * 10 + (Code(Head(s)) - 48)
       IN  DigitsValue(Tail(s), IF v > MaxInt + 1 THEN MaxInt + 2 ELSE v)

\* strconv.Atoi: optional sign, then one or more decimal digits; a syntax error
\* yields 0 and a range error yields the nearest bound, both with err set.
Atoi(s) ==
  LET neg  == s # <<>> /\ Head(s) = "-"
      body == IF neg THEN Tail(s) ELSE s
  IN  IF body = <<>> \/ \E j \in 1..Len(body) : ~IsDigit(body[j])
        THEN [err |-> TRUE, val |-> 0]
      ELSE LET m == DigitsValue(body, 0)
           IN  IF neg
                 THEN IF m > MaxInt + 1 THEN [err |-> TRUE, val |-> MinInt]
                      ELSE [err |-> FALSE, val |-> 0 - m]
                 ELSE IF m > MaxInt THEN [err |-> TRUE, val |-> MaxInt]
                      ELSE [err |-> FALSE, val |-> m]

(* ------------------------------ inputs -------------------------------- *)

\* Target identifiers a configuration may list.
URLs == { <<"a">>, <<"a", "b">>, <<"b">> }

\* Contents of config.Websites the monitoring specification starts from: no
\* target, one, two distinct ones, and one url listed twice.
Configs == { <<>>, << <<"a">> >>, << <<"b">>, <<"a">> >>, << <<"a">>, <<"a">> >> }

\* Contents of config.Websites the query specification starts from.
QueryConfigs ==
  Configs \cup { << <<"b">>, <<"a", "b">>, <<"a">> >>, << <<"a", "b">>, <<"b">> >> }

\* Outcomes of one http.Get: a transport error or a response status code.
NoResp == [err |-> FALSE, code |-> 0]
ProbeResults ==
  { [err |-> TRUE, code |-> 0] } \cup { [err |-> FALSE, code |-> c] : c \in {199, 200, 299, 300} }

\* Raw values of the page and limit query parameters ("" when absent).
ParamStrs ==
  { <<>>, <<"x">>, <<"-", "1">>, <<"0">>, <<"1">>, <<"2">>, <<"3">>, <<"4">>,
    <<"1", "0">>, <<"6", "4">>, <<"1", "2", "7">>, <<"1", "2", "8">>,
    <<"2", "5", "5">>, <<"2", "5", "6">> }

\* (page, limit) pairs the monitoring specification queries with.
FewParams == { << <<>>, <<>> >>, << <<"2">>, <<"1">> >> }

(* ------------------------------- state -------------------------------- *)

VARIABLES
  Websites,     \* config.Websites
  statusMap,    \* statusMap: url -> "up" | "down", keys inserted on first write
  mutexHolder,  \* statusMutex: 0 when free, else the goroutine holding it
  spc,          \* position of main / startMonitoring
  k,            \* index of the range loop that launches the goroutines
  wg,           \* counter of the current round's sync.WaitGroup
  round,        \* number of the current round (0 before the initial check)
  tickerOn,     \* time.NewTicker has been called
  tickPending,  \* number of ticks buffered in ticker.C
  gpc,          \* position of each probe goroutine
  ground,       \* round that launched each goroutine
  resp,         \* resp, err of http.Get in each goroutine
  lastStatus,   \* lastStatus local of each goroutine
  emailRes,     \* outcome of sendEmail in each goroutine
  notifCount,   \* history: sendEmail calls per url
  runNotifs,    \* history: sendEmail calls per url since it was last stored "up"
  downRuns,     \* history: writes of "down" over a stored status that was not "down"
  lastOutcome,  \* history: classification of the url's most recently completed probe
  launches,     \* history: goroutines launched so far for each entry of Websites
  request,      \* parameters of the last query
  response      \* response of the last query

vars ==
  << Websites, statusMap, mutexHolder, spc, k, wg, round, tickerOn, tickPending,
     gpc, ground, resp, lastStatus, emailRes, notifCount, runNotifs, downRuns,
     lastOutcome, launches, request, response >>

schedVars == << spc, k, wg, round, tickerOn, tickPending >>
histVars  == << notifCount, runNotifs, downRuns, lastOutcome >>
queryVars == << request, response >>

Sites == DOMAIN Websites

\* The configured target set.
Targets == { Websites[i] : i \in Sites }

\* statusMap[url]: the zero value "" when the key is absent.
MapGet(m, u) == IF u \in DOMAIN m THEN m[u] ELSE ""

\* statusMap[url] = v: inserts the key when absent.
MapPut(m, u, v) == [x \in DOMAIN m \cup {u} |-> IF x = u THEN v ELSE m[x]]

NoResponse == [kind |-> "none"]
NoRequest  == [page |-> <<>>, limit |-> <<>>]

Init ==
  /\ Websites \in Configs
  /\ statusMap = << >>
  /\ mutexHolder = 0
  /\ spc = "load"
  /\ k = 1
  /\ wg = 0
  /\ round = 0
  /\ tickerOn = FALSE
  /\ tickPending = 0
  /\ gpc = [i \in Sites |-> "none"]
  /\ ground = [i \in Sites |-> 0]
  /\ resp = [i \in Sites |-> NoResp]
  /\ lastStatus = [i \in Sites |-> ""]
  /\ emailRes = [i \in Sites |-> "none"]
  /\ notifCount = [u \in URLs |-> 0]
  /\ runNotifs = [u \in URLs |-> 0]
  /\ downRuns = [u \in URLs |-> 0]
  /\ lastOutcome = [u \in URLs |-> "none"]
  /\ launches = [i \in Sites |-> 0]
  /\ request = NoRequest
  /\ response = NoResponse

(* --------------------------- main / scheduler ------------------------- *)

AfterLoopSkipsLast(next) == IF next >= Len(Websites) THEN "wait" ELSE "spawn"

\* Position after one iteration test of "for _, site := range config.Websites".
AfterLoop(next) == IF next > Len(Websites) THEN "wait" ELSE "spawn"

\* main: loadConfiguration fails (return) or succeeds (start the API server,
\* then startMonitoring begins the initial check).
Main ==
  /\ spc = "load"
  /\ \E loadErr \in BOOLEAN :
       IF loadErr
         THEN /\ spc' = "exited"
              /\ UNCHANGED << k, round >>
         ELSE /\ spc' = AfterLoop(1)
              /\ k' = 1
              /\ round' = 1
  /\ UNCHANGED << Websites, launches, statusMap, mutexHolder, wg, tickerOn, tickPending,
                  gpc, ground, resp, lastStatus, emailRes, histVars, queryVars >>

\* One iteration of the launch loop: wg.Add(1); go func(url) {...}(site).
Spawn ==
  /\ spc = "spawn"
  /\ k \in Sites
  /\ wg' = wg + 1
  /\ gpc' = [gpc EXCEPT ![k] = "get"]
  /\ ground' = [ground EXCEPT ![k] = round]
  /\ resp' = [resp EXCEPT ![k] = NoResp]
  /\ lastStatus' = [lastStatus EXCEPT ![k] = ""]
  /\ emailRes' = [emailRes EXCEPT ![k] = "none"]
  /\ k' = k + 1
  /\ spc' = AfterLoop(k + 1)
  /\ launches' = [launches EXCEPT ![k] = @ + 1]
  /\ UNCHANGED << Websites, statusMap, mutexHolder, round, tickerOn, tickPending,
                  histVars, queryVars >>

WgWaitNoJoin == TRUE

\* wg.Wait() returns once the counter is zero.
WgWaitReady == wg = 0

\* wg.Wait() returns; after the initial check the ticker is created.
WgWait ==
  /\ spc = "wait"
  /\ WgWaitReady
  /\ spc' = "select"
  /\ tickerOn' = TRUE
  /\ UNCHANGED << Websites, launches, statusMap, mutexHolder, k, wg, round, tickPending,
                  gpc, ground, resp, lastStatus, emailRes, histVars, queryVars >>

TickerSendQueued(buffered) == buffered + 1

\* The ticker's send on ticker.C, a channel of capacity 1 that is never blocked
\* on: the tick is buffered when the channel is empty and dropped otherwise.
TickerSend(buffered) == IF buffered < 1 THEN buffered + 1 ELSE buffered

\* The runtime timer fires: the tick is buffered in ticker.C (capacity 1) or,
\* when one is already buffered, dropped.
Tick ==
  /\ tickerOn
  /\ tickPending' = TickerSend(tickPending)
  /\ UNCHANGED << Websites, launches, statusMap, mutexHolder, spc, k, wg, round, tickerOn,
                  gpc, ground, resp, lastStatus, emailRes, histVars, queryVars >>

\* case <-ticker.C: a new check cycle starts with a fresh WaitGroup.
ReceiveTick ==
  /\ spc = "select"
  /\ tickPending > 0
  /\ round < MaxRounds
  /\ tickPending' = tickPending - 1
  /\ round' = round + 1
  /\ wg' = 0
  /\ k' = 1
  /\ spc' = AfterLoop(1)
  /\ UNCHANGED << Websites, launches, statusMap, mutexHolder, tickerOn,
                  gpc, ground, resp, lastStatus, emailRes, histVars, queryVars >>

(* ----------------------------- checkWebsite --------------------------- *)

ClassifyBelow299(r) ==
  IF r.err THEN "down"
  ELSE IF r.code >= 200 /\ r.code < 299 THEN "up" ELSE "down"

\* The probe's classification: up iff a response with a 2xx status code.
Classify(r) ==
  IF r.err THEN "down"
  ELSE IF r.code >= 200 /\ r.code <= 299 THEN "up" ELSE "down"

ShouldNotifyAlways(last) == TRUE

ShouldNotifyOnlyFromUp(last) == last = "up"

\* if lastStatus != "down"
ShouldNotify(last) == last # "down"

BranchTargetRecoveryAlert(r, last) ==
  IF Classify(r) = "up"
    THEN IF last = "down" THEN "send" ELSE "storeup"
    ELSE IF ShouldNotify(last) THEN "send" ELSE "unlock"

\* Where checkWebsite goes after reading lastStatus: the up branch stores "up";
\* a down result calls sendEmail when the guard holds, else returns.
BranchTarget(r, last) ==
  IF Classify(r) = "up" THEN "storeup"
  ELSE IF ShouldNotify(last) THEN "send" ELSE "unlock"

StoreUpOnlyWhenAbsent(m, u) == IF u \in DOMAIN m THEN m ELSE MapPut(m, u, "up")

StoreUpAll(m, u) == [x \in DOMAIN m \cup {u} |-> "up"]

\* statusMap[url] = "up"
StoreUp(m, u) == MapPut(m, u, "up")

StoreDownOnlyWhenSent(m, u, res) == IF res = "ok" THEN MapPut(m, u, "down") ELSE m

StoreDownAlone(m, u, res) == [x \in {u} |-> "down"]

\* statusMap[url] = "down", the statement after sendEmail returns.
StoreDown(m, u, res) == MapPut(m, u, "down")

CanLockAlways(holder) == TRUE

\* statusMutex.Lock() returns only when no goroutine holds the mutex.
CanLock(holder) == holder = 0

\* resp, err := http.Get(url)
HttpGet(i) ==
  /\ gpc[i] = "get"
  /\ \E r \in ProbeResults : resp' = [resp EXCEPT ![i] = r]
  /\ gpc' = [gpc EXCEPT ![i] = "lock"]
  /\ UNCHANGED << Websites, launches, statusMap, mutexHolder, schedVars, ground, lastStatus,
                  emailRes, histVars, queryVars >>

LockBeforeGet(i) ==
  /\ gpc[i] = "get"
  /\ CanLock(mutexHolder)
  /\ mutexHolder' = i
  /\ UNCHANGED << Websites, launches, statusMap, schedVars, gpc, ground, resp,
                  lastStatus, emailRes, histVars, queryVars >>

\* statusMutex.Lock()
Lock(i) ==
  /\ gpc[i] = "lock"
  /\ CanLock(mutexHolder)
  /\ mutexHolder' = i
  /\ gpc' = [gpc EXCEPT ![i] = "read"]
  /\ UNCHANGED << Websites, launches, statusMap, schedVars, ground, resp, lastStatus,
                  emailRes, histVars, queryVars >>

\* lastStatus := statusMap[url]
ReadLast(i) ==
  /\ gpc[i] = "read"
  /\ lastStatus' = [lastStatus EXCEPT ![i] = MapGet(statusMap, Websites[i])]
  /\ gpc' = [gpc EXCEPT ![i] = "branch"]
  /\ UNCHANGED << Websites, launches, statusMap, mutexHolder, schedVars, ground, resp,
                  emailRes, histVars, queryVars >>

\* The tests on err, resp.StatusCode and lastStatus; entering sendEmail is the
\* notification call.
Branch(i) ==
  /\ gpc[i] = "branch"
  /\ LET t == BranchTarget(resp[i], lastStatus[i])
         u == Websites[i]
     IN  /\ gpc' = [gpc EXCEPT ![i] = t]
         /\ notifCount' = IF t = "send" THEN [notifCount EXCEPT ![u] = @ + 1]
                          ELSE notifCount
         /\ runNotifs' = IF t = "send" THEN [runNotifs EXCEPT ![u] = @ + 1]
                         ELSE runNotifs
  /\ UNCHANGED << Websites, launches, statusMap, mutexHolder, schedVars, ground, resp,
                  lastStatus, emailRes, downRuns, lastOutcome, queryVars >>

\* sendEmail returns: smtp.SendMail succeeded, or failed and was logged.
SendEmail(i) ==
  /\ gpc[i] = "send"
  /\ \E res \in {"ok", "err"} : emailRes' = [emailRes EXCEPT ![i] = res]
  /\ gpc' = [gpc EXCEPT ![i] = "storedown"]
  /\ UNCHANGED << Websites, launches, statusMap, mutexHolder, schedVars, ground, resp,
                  lastStatus, histVars, queryVars >>

\* statusMap[url] = "down" after sendEmail.
WriteDown(i) ==
  /\ gpc[i] = "storedown"
  /\ LET u == Websites[i]
     IN  /\ statusMap' = StoreDown(statusMap, u, emailRes[i])
         /\ downRuns' = IF MapGet(statusMap, u) # "down"
                          THEN [downRuns EXCEPT ![u] = @ + 1] ELSE downRuns
  /\ gpc' = [gpc EXCEPT ![i] = "unlock"]
  /\ UNCHANGED << Websites, launches, mutexHolder, schedVars, ground, resp, lastStatus,
                  emailRes, notifCount, runNotifs, lastOutcome, queryVars >>

\* statusMap[url] = "up" in the 2xx branch.
WriteUp(i) ==
  /\ gpc[i] = "storeup"
  /\ LET u == Websites[i]
     IN  /\ statusMap' = StoreUp(statusMap, u)
         /\ runNotifs' = [runNotifs EXCEPT ![u] = 0]
  /\ gpc' = [gpc EXCEPT ![i] = "unlock"]
  /\ UNCHANGED << Websites, launches, mutexHolder, schedVars, ground, resp, lastStatus,
                  emailRes, notifCount, downRuns, lastOutcome, queryVars >>

UnlockForgotten(i) ==
  /\ gpc[i] = "unlock"
  /\ lastOutcome' = [lastOutcome EXCEPT ![Websites[i]] = Classify(resp[i])]
  /\ gpc' = [gpc EXCEPT ![i] = "wgdone"]
  /\ resp' = [resp EXCEPT ![i] = NoResp]
  /\ lastStatus' = [lastStatus EXCEPT ![i] = ""]
  /\ emailRes' = [emailRes EXCEPT ![i] = "none"]
  /\ UNCHANGED << Websites, launches, statusMap, mutexHolder, schedVars, ground,
                  notifCount, runNotifs, downRuns, queryVars >>

\* The deferred statusMutex.Unlock() as checkWebsite returns: the probe is complete.
Unlock(i) ==
  /\ gpc[i] = "unlock"
  /\ mutexHolder' = IF mutexHolder = i THEN 0 ELSE mutexHolder
  /\ lastOutcome' = [lastOutcome EXCEPT ![Websites[i]] = Classify(resp[i])]
  /\ gpc' = [gpc EXCEPT ![i] = "wgdone"]
  /\ resp' = [resp EXCEPT ![i] = NoResp]
  /\ lastStatus' = [lastStatus EXCEPT ![i] = ""]
  /\ emailRes' = [emailRes EXCEPT ![i] = "none"]
  /\ UNCHANGED << Websites, launches, statusMap, schedVars, ground, notifCount, runNotifs,
                  downRuns, queryVars >>

\* The deferred wg.Done() of the goroutine's closure.
WgDone(i) ==
  /\ gpc[i] = "wgdone"
  /\ wg' = wg - 1
  /\ gpc' = [gpc EXCEPT ![i] = "done"]
  /\ UNCHANGED << Websites, launches, statusMap, mutexHolder, spc, k, round, tickerOn,
                  tickPending, ground, resp, lastStatus, emailRes, histVars, queryVars >>

(* ----------------------------- statusHandler -------------------------- *)

\* The orders in which "for url, status := range statusMap" may visit the keys.
RangeOrders(m) ==
  { o \in [1..Cardinality(DOMAIN m) -> DOMAIN m] :
      \A a, b \in 1..Cardinality(DOMAIN m) : a # b => o[a] # o[b] }

\* The slice of StatusEntry appended in iteration order o.
Snapshot(m, o) == [j \in DOMAIN o |-> [url |-> o[j], status |-> m[o[j]]]]

RECURSIVE InsertByURL(_, _)
InsertByURL(e, s) ==
  IF s = <<>> THEN <<e>>
  ELSE IF StrLess(e.url, Head(s).url) THEN <<e>> \o s
  ELSE <<Head(s)>> \o InsertByURL(e, Tail(s))

\* sort.Slice(statuses, less by URL): keys of a map are distinct, so the result
\* is the one ascending arrangement.
RECURSIVE SortByURL(_)
SortByURL(s) == IF s = <<>> THEN <<>> ELSE InsertByURL(Head(s), SortByURL(Tail(s)))

ParsePageAllowsZero(str) == LET r == Atoi(str) IN IF r.err \/ r.val < 0 THEN 1 ELSE r.val

\* page, err := strconv.Atoi(pageStr); if err != nil || page < 1 { page = 1 }
ParsePage(str) == LET r == Atoi(str) IN IF r.err \/ r.val < 1 THEN 1 ELSE r.val

\* limit, err := strconv.Atoi(limitStr); if err != nil || limit < 1 { limit = 10 }
ParseLimit(str) == LET r == Atoi(str) IN IF r.err \/ r.val < 1 THEN 10 ELSE r.val

\* totalPages := (totalItems + limit - 1) / limit
TotalPages(totalItems, limit) == Quo(Wrap(Wrap(totalItems + limit) - 1), limit)

\* start := (page - 1) * limit, then clamped from above to totalItems.
StartIndex(totalItems, page, limit) ==
  LET start == Wrap(Wrap(page - 1) * limit)
  IN  IF start > totalItems THEN totalItems ELSE start

\* end := start + limit on the unclamped start, then clamped from above.
EndIndex(totalItems, page, limit) ==
  LET end == Wrap(Wrap(Wrap(page - 1) * limit) + limit)
  IN  IF end > totalItems THEN totalItems ELSE end

\* statuses[start:end] panics unless 0 <= start <= end (end <= len holds here).
SliceOK(start, end) == 0 <= start /\ start <= end

\* The response of statusHandler on the sorted snapshot: the JSON envelope, or
\* a run-time panic of the slice expression (the server drops the request).
Paginate(statuses, page, limit) ==
  LET totalItems == Len(statuses)
      start == StartIndex(totalItems, page, limit)
      end   == EndIndex(totalItems, page, limit)
  IN  IF ~SliceOK(start, end) THEN [kind |-> "panic"]
      ELSE [kind        |-> "ok",
            totalPages  |-> TotalPages(totalItems, limit),
            currentPage |-> page,
            data        |-> SubSeq(statuses, start + 1, end),
            dataIsNil   |-> (totalItems = 0)]

ServerStartedBeforeLoad == TRUE

\* go startAPIServer() is reached only after loadConfiguration succeeded, and
\* the server ends with the process.
ServerStarted == spc \notin {"load", "exited"}

\* statusHandler: parse the parameters, copy the map under the mutex, sort,
\* paginate, encode. The API server runs once main has loaded the configuration.
StatusHandler(pageStr, limitStr) ==
  /\ ServerStarted
  /\ CanLock(mutexHolder)
  /\ \E o \in RangeOrders(statusMap) :
       response' = Paginate(SortByURL(Snapshot(statusMap, o)),
                            ParsePage(pageStr), ParseLimit(limitStr))
  /\ request' = [page |-> pageStr, limit |-> limitStr]
  /\ UNCHANGED << Websites, launches, statusMap, mutexHolder, schedVars, gpc, ground, resp,
                  lastStatus, emailRes, histVars >>

(* --------------------------- specifications --------------------------- *)

Query == \E q \in FewParams : StatusHandler(q[1], q[2])

Next ==
  \/ Main
  \/ Spawn
  \/ WgWait
  \/ Tick
  \/ ReceiveTick
  \/ \E i \in Sites : HttpGet(i)
  \/ \E i \in Sites : Lock(i)
  \/ \E i \in Sites : ReadLast(i)
  \/ \E i \in Sites : Branch(i)
  \/ \E i \in Sites : SendEmail(i)
  \/ \E i \in Sites : WriteDown(i)
  \/ \E i \in Sites : WriteUp(i)
  \/ \E i \in Sites : Unlock(i)
  \/ \E i \in Sites : WgDone(i)
  \/ Query

Spec == Init /\ [][Next]_vars

\* Indices an entry of config.Websites can have.
EntryIds == UNION { DOMAIN c : c \in Configs }

\* The steps of main / startMonitoring.
SchedulerStep == Main \/ Spawn \/ WgWait \/ ReceiveTick

\* The steps of the probe goroutine of entry i.
GoroutineStep(i) ==
  /\ i \in Sites
  /\ \/ HttpGet(i) \/ Lock(i) \/ ReadLast(i) \/ Branch(i) \/ SendEmail(i)
     \/ WriteDown(i) \/ WriteUp(i) \/ Unlock(i) \/ WgDone(i)

\* The Go scheduler runs every runnable goroutine, the timer keeps firing, and
\* every http.Get and sendEmail call returns.
SpecLive ==
  /\ Init
  /\ [][Next]_vars
  /\ WF_vars(SchedulerStep)
  /\ WF_vars(Tick)
  /\ \A i \in EntryIds : WF_vars(GoroutineStep(i))

\* The query specification starts where the initial check has completed:
\* every configured target probed once, the scheduler waiting for a tick.
InitQuery ==
  /\ Websites \in QueryConfigs
  /\ \E st \in [Targets -> {"up", "down"}] :
       /\ statusMap = st
       /\ notifCount = [u \in URLs |-> IF MapGet(st, u) = "down" THEN 1 ELSE 0]
       /\ runNotifs = [u \in URLs |-> IF MapGet(st, u) = "down" THEN 1 ELSE 0]
       /\ downRuns = [u \in URLs |-> IF MapGet(st, u) = "down" THEN 1 ELSE 0]
       /\ lastOutcome = [u \in URLs |-> IF u \in DOMAIN st THEN st[u] ELSE "none"]
  /\ mutexHolder = 0
  /\ spc = "select"
  /\ k = Len(Websites) + 1
  /\ wg = 0
  /\ round = 1
  /\ tickerOn = TRUE
  /\ tickPending = 0
  /\ gpc = [i \in Sites |-> "done"]
  /\ ground = [i \in Sites |-> 1]
  /\ launches = [i \in Sites |-> 1]
  /\ resp = [i \in Sites |-> NoResp]
  /\ lastStatus = [i \in Sites |-> ""]
  /\ emailRes = [i \in Sites |-> "none"]
  /\ request = NoRequest
  /\ response = NoResponse

\* One query per snapshot, with any pair of parameter values: the handler keeps
\* no state of its own, so a second query repeats the first.
NextQuery ==
  /\ response = NoResponse
  /\ \E p \in ParamStrs, l \in ParamStrs : StatusHandler(p, l)

SpecQuery == InitQuery /\ [][NextQuery]_vars

(* ------------------------------- claims ------------------------------- *)

\* Goroutines of url u that are inside sendEmail or about to store "down".
Notifying(u) == { i \in Sites : Websites[i] = u /\ gpc[i] \in {"send", "storedown"} }

\* C1: notification suppression. A url stored "down" has had exactly one
\* sendEmail call since it was last not "down", however many Down results
\* followed; a url not stored "down" has none outstanding; and the call is
\* made only by a Down result that read a stored status other than "down".
NotificationSuppression ==
  /\ \A u \in URLs :
       /\ runNotifs[u] <= 1
       /\ MapGet(statusMap, u) = "down" => runNotifs[u] = 1
       /\ (MapGet(statusMap, u) # "down" /\ Notifying(u) = {}) => runNotifs[u] = 0
  /\ \A i \in Sites :
       gpc[i] \in {"send", "storedown"} =>
         /\ Classify(resp[i]) = "down"
         /\ lastStatus[i] # "down"
         /\ MapGet(statusMap, Websites[i]) = lastStatus[i]

\* A third consecutive round whose Down result was suppressed: the url is
\* stored "down", the probe read "down", and one notification was ever sent.
SuppressedRepeatReached ==
  \E i \in Sites :
    /\ Websites = << <<"a">> >>
    /\ round = 3
    /\ gpc[i] = "unlock"
    /\ Classify(resp[i]) = "down"
    /\ lastStatus[i] = "down"
    /\ lastOutcome[Websites[i]] = "down"
    /\ notifCount[Websites[i]] = 1

\* C2: rounds never overlap. Every goroutine that has not finished belongs to
\* the current round, and the scheduler waits for a tick, or launches the
\* remaining goroutines of a round, only when the earlier round's goroutines
\* have all called wg.Done.
RoundsNeverOverlap ==
  /\ \A i \in Sites : gpc[i] \notin {"none", "done"} => ground[i] = round
  /\ spc = "select" => \A i \in Sites : gpc[i] = "done"
  /\ spc = "spawn" => \A i \in Sites : i >= k => gpc[i] \in {"none", "done"}
  /\ wg = Cardinality({ i \in Sites : gpc[i] \notin {"none", "done"} })

\* A round overran the period: a tick is buffered while a goroutine of the
\* second round is still waiting for the mutex.
OverrunReached ==
  /\ round = 2
  /\ tickPending = 1
  /\ \E i \in Sites : gpc[i] = "lock" /\ mutexHolder \notin {0, i}

\* C3 as stated: once the configuration is loaded the key set of the store is
\* the configured target set, and a query lists one entry per target.
KeySetEqualsTargets ==
  /\ spc \notin {"load", "exited"} => DOMAIN statusMap = Targets
  /\ (response.kind = "ok" /\ request = NoRequest) =>
       { response.data[j].url : j \in DOMAIN response.data } = Targets

KeySetState ==
  /\ DOMAIN statusMap \subseteq Targets
  /\ \A u \in DOMAIN statusMap : statusMap[u] \in {"up", "down"}
  /\ mutexHolder = 0 => DOMAIN statusMap = { u \in URLs : lastOutcome[u] # "none" }
  /\ response.kind = "ok" =>
       /\ \A j \in DOMAIN response.data : response.data[j].url \in DOMAIN statusMap
       /\ \A a, b \in DOMAIN response.data :
            a # b => response.data[a].url # response.data[b].url

\* C3 as amended: the key set is a subset of the configured target set, holding
\* exactly the targets whose first probe has completed (none at start); stored
\* values are "up" or "down"; keys are never removed; a query lists at most one
\* entry per target and only targets already in the store.
KeySetIsProbedTargets ==
  /\ []KeySetState
  /\ [][DOMAIN statusMap \subseteq DOMAIN statusMap']_vars

\* A query answered mid-round: two targets configured, one in the store, one
\* entry in the response.
PartialKeySetReached ==
  /\ Cardinality(Targets) = 2
  /\ Cardinality(DOMAIN statusMap) = 1
  /\ response.kind = "ok"
  /\ request = NoRequest
  /\ Len(response.data) = 1

\* C4: no goroutine is inside sendEmail while it holds statusMutex.
NoNotifyUnderLock ==
  \A i \in Sites : gpc[i] = "send" => mutexHolder # i

\* C5: no recovery alert. Only a Down result ever reaches sendEmail, and every
\* sendEmail call of a url is matched by one write of "down" over a status that
\* was not "down" (done, or about to be done by the caller).
NoRecoveryAlert ==
  /\ \A i \in Sites : gpc[i] \in {"send", "storedown"} => Classify(resp[i]) = "down"
  /\ \A u \in URLs :
       notifCount[u] = downRuns[u] + (IF Notifying(u) = {} THEN 0 ELSE 1)

\* A recovery: an Up result read "down", stored "up", and the url's one
\* notification is the earlier one.
RecoveryReached ==
  \E i \in Sites :
    /\ gpc[i] = "unlock"
    /\ Classify(resp[i]) = "up"
    /\ lastStatus[i] = "down"
    /\ statusMap[Websites[i]] = "up"
    /\ notifCount[Websites[i]] = 1

\* C6: the store write does not depend on the notification's outcome. A
\* goroutine that has returned from sendEmail, with either result, has stored
\* "down" when it reaches its unlock.
WriteIndependentOfEmail ==
  \A i \in Sites :
    (gpc[i] = "unlock" /\ emailRes[i] # "none") =>
      MapGet(statusMap, Websites[i]) = "down"

\* sendEmail failed and the status was stored all the same.
FailedEmailStoredReached ==
  \E i \in Sites :
    /\ gpc[i] = "unlock"
    /\ emailRes[i] = "err"
    /\ MapGet(statusMap, Websites[i]) = "down"
    /\ runNotifs[Websites[i]] = 1

\* The sorted snapshot statusHandler paginates.
SortedStore ==
  SortByURL(Snapshot(statusMap, CHOOSE o \in RangeOrders(statusMap) : TRUE))

\* The data of pages from..to at this limit, or <<"panic">> when a page fails.
RECURSIVE ConcatPages(_, _, _, _)
ConcatPages(statuses, limit, from, to) ==
  IF from > to THEN <<>>
  ELSE LET r == Paginate(statuses, from, limit)
       IN  IF r.kind = "panic" THEN <<"panic">>
           ELSE r.data \o ConcatPages(statuses, limit, from + 1, to)

\* C7: pagination completeness. For the limit of an answered query, the data
\* of pages 1..totalPages concatenated is the sorted snapshot.
PaginationComplete ==
  response.kind = "ok" =>
    ConcatPages(SortedStore, ParseLimit(request.limit), 1, response.totalPages)
      = SortedStore

\* C8: pagination is total. Every query gets a normal response whose page is
\* the requested one and whose data lies within the snapshot.
PaginationTotal ==
  response.kind # "none" =>
    /\ response.kind = "ok"
    /\ response.currentPage = ParsePage(request.page)
    /\ Len(response.data) <= Len(SortedStore)

\* C9: with the mutex free (the only states a reader sees), every url's stored
\* status is the classification of its most recently completed probe, and the
\* zero value when no probe of it has completed.
StoredStatusIsLastCompleted ==
  mutexHolder = 0 =>
    \A u \in URLs :
      MapGet(statusMap, u) = (IF lastOutcome[u] = "none" THEN "" ELSE lastOutcome[u])

\* A probe in flight with an Up result while the store still shows the "down"
\* of the last completed probe.
InFlightUnseenReached ==
  \E i \in Sites :
    /\ mutexHolder = 0
    /\ gpc[i] = "lock"
    /\ Classify(resp[i]) = "up"
    /\ lastOutcome[Websites[i]] = "down"
    /\ MapGet(statusMap, Websites[i]) = "down"

StatusDomain ==
  \A u \in URLs :
    /\ MapGet(statusMap, u) \in {"", "up", "down"}
    /\ lastOutcome[u] # "none" => MapGet(statusMap, u) \in {"up", "down"}

\* C10: every status is unknown (the zero value), up or down; a url whose
\* probe has completed is up or down; and a status that has left unknown
\* never returns to it.
StatusDomainMonotone ==
  /\ []StatusDomain
  /\ [][\A u \in URLs : MapGet(statusMap, u) # "" => MapGet(statusMap', u) # ""]_vars

\* A target that was down and is up after a later probe.
LeftUnknownReached ==
  \E u \in URLs :
    /\ lastOutcome[u] = "up"
    /\ MapGet(statusMap, u) = "up"
    /\ downRuns[u] = 1
    /\ mutexHolder = 0

SinglePendingState == tickPending <= 1

\* C12: at most one tick is ever buffered, and a round started by a tick
\* consumes it: the round starts with every goroutine of the round before done
\* and leaves no tick behind, so the round after it needs a tick fired later.
SinglePendingTick ==
  /\ []SinglePendingState
  /\ [][(round >= 1 /\ round' # round) =>
          /\ round' = round + 1
          /\ tickPending = 1
          /\ tickPending' = 0
          /\ \A i \in Sites : gpc[i] = "done"]_vars

\* A tick is buffered while the second round is inside sendEmail: every
\* further tick of this round is dropped.
TickBufferedDuringRoundReached ==
  /\ round = 2
  /\ spc = "wait"
  /\ tickPending = 1
  /\ \E i \in Sites : gpc[i] = "send"

\* Positions of checkWebsite between Lock and the deferred Unlock.
Critical == {"read", "branch", "send", "storedown", "storeup", "unlock"}

TransitionAtomicState ==
  /\ \A i, j \in Sites : (i # j /\ gpc[i] \in Critical) => gpc[j] \notin Critical
  /\ \A i \in Sites : gpc[i] \in Critical => mutexHolder = i
  /\ \A i \in Sites :
       gpc[i] \in {"branch", "send", "storedown", "storeup"} =>
         MapGet(statusMap, Websites[i]) = lastStatus[i]
  /\ \A u \in URLs : Cardinality(Notifying(u)) <= 1

\* C13: transition atomicity. At most one goroutine is between its read and its
\* write, it holds the mutex, the stored status it read is still the stored
\* one, no query is answered meanwhile, and no two goroutines of one url are
\* both notifying.
TransitionAtomic ==
  /\ []TransitionAtomicState
  /\ [][queryVars' # queryVars => \A i \in Sites : gpc[i] \notin Critical]_vars

\* Two Down results for a url listed twice: one is inside sendEmail, the other
\* waits for the mutex.
ConcurrentDownReached ==
  \E i, j \in Sites :
    /\ i # j
    /\ Websites[i] = Websites[j]
    /\ gpc[i] = "send"
    /\ gpc[j] = "lock"
    /\ Classify(resp[j]) = "down"

\* C14: scheduler liveness. Under SpecLive a round in flight always reaches its
\* completed join, and the scheduler waiting for a tick always starts the next
\* round (up to the last round followed).
SchedulerLive ==
  /\ (spc \in {"spawn", "wait"}) ~> (spc = "select")
  /\ (spc = "select" /\ round < MaxRounds) ~> (spc \in {"spawn", "wait"})

\* The last round followed has completed for a two-entry configuration.
AllRoundsCompleteReached ==
  /\ Len(Websites) = 2
  /\ round = MaxRounds
  /\ spc = "select"

\* ceil(n / l) over the integers.
CeilDiv(n, l) == IF n = 0 THEN 0 ELSE ((n - 1) \div l) + 1

\* C15: total page count. The totalPages of an answered query is
\* ceil(total_items / limit), 0 for an empty store.
TotalPagesIsCeil ==
  response.kind = "ok" =>
    response.totalPages = CeilDiv(Len(SortedStore), ParseLimit(request.limit))

\* A response with a status code in 200..299.
Is2xx(r) == ~r.err /\ r.code \in 200..299

\* C16: probe classification. Only a 2xx response takes the up branch; a
\* transport error and any other status code take the down path, where
\* sendEmail is called exactly when the status read was not "down"; at the
\* unlock the stored status is "up" for a 2xx response and "down" otherwise.
ProbeClassification ==
  \A i \in Sites :
    /\ gpc[i] = "storeup" => Is2xx(resp[i])
    /\ gpc[i] \in {"send", "storedown"} => (~Is2xx(resp[i]) /\ lastStatus[i] # "down")
    /\ gpc[i] = "unlock" =>
         /\ MapGet(statusMap, Websites[i]) = (IF Is2xx(resp[i]) THEN "up" ELSE "down")
         /\ (emailRes[i] # "none") = (~Is2xx(resp[i]) /\ lastStatus[i] # "down")

\* A response with status 300 over a stored "up": notified and stored "down".
Non2xxDownReached ==
  \E i \in Sites :
    /\ gpc[i] = "unlock"
    /\ resp[i] = [err |-> FALSE, code |-> 300]
    /\ lastStatus[i] = "up"
    /\ emailRes[i] = "ok"
    /\ statusMap[Websites[i]] = "down"

\* Parameter values that are absent, non-numeric or below 1.
Defaulted == { <<>>, <<"x">>, <<"-", "1">>, <<"0">> }

\* The response to the given parameter values on the current store.
ResponseTo(pageStr, limitStr) ==
  Paginate(SortedStore, ParsePage(pageStr), ParseLimit(limitStr))

ExitedState ==
  spc = "exited" =>
    /\ round = 0
    /\ ~tickerOn
    /\ mutexHolder = 0
    /\ statusMap = << >>
    /\ \A i \in Sites : gpc[i] = "none" /\ launches[i] = 0
    /\ \A u \in URLs : notifCount[u] = 0 /\ lastOutcome[u] = "none"
    /\ response = NoResponse

\* C18: fatal configuration error. When loadConfiguration fails nothing has
\* run and nothing runs afterwards: no round, goroutine, probe, notification
\* or query response, before or after the process ends.
FatalConfigError ==
  /\ []ExitedState
  /\ [][spc # "exited"]_vars

\* The process has ended on a load failure.
LoadFailedReached ==
  /\ spc = "exited"
  /\ Len(Websites) = 2

\* C19: probe I/O outside the lock. A goroutine holds the mutex only between
\* Lock and Unlock, never while in http.Get or waiting to lock; with every
\* goroutine outside that section the mutex is free.
ProbeOutsideLock ==
  /\ \A i \in Sites : gpc[i] \notin Critical => mutexHolder # i
  /\ (\A i \in Sites : gpc[i] \notin Critical) => mutexHolder = 0

\* One probe is still in http.Get while the other entry's goroutine has gone
\* through its transition step and a query was answered.
SlowProbeBypassedReached ==
  /\ Len(Websites) = 2
  /\ round = 1
  /\ gpc[1] = "get"
  /\ gpc[2] = "wgdone"
  /\ mutexHolder = 0
  /\ response.kind = "ok"
  /\ Len(response.data) = 1

\* C20: frame conditions. A step that changes the stored status of a url is
\* the store write of a goroutine of that url holding the mutex during a round,
\* and it changes no other url's status; a step that answers a query leaves
\* the store unchanged.
StoreFrame ==
  [][/\ \A u \in URLs :
          MapGet(statusMap', u) # MapGet(statusMap, u) =>
            /\ \E i \in Sites :
                 /\ Websites[i] = u
                 /\ mutexHolder = i
                 /\ gpc[i] \in {"storeup", "storedown"}
                 /\ gpc'[i] = "unlock"
            /\ \A v \in URLs \ {u} : MapGet(statusMap', v) = MapGet(statusMap, v)
            /\ spc \in {"spawn", "wait"}
            /\ queryVars' = queryVars
     /\ queryVars' # queryVars => statusMap' = statusMap]_vars

\* The first entry's goroutine has stored "up" over "down" while the other
\* target stays "down".
OtherTargetKeptReached ==
  /\ Websites = << <<"b">>, <<"a">> >>
  /\ gpc[1] = "unlock"
  /\ lastStatus[1] = "down"
  /\ MapGet(statusMap, <<"b">>) = "up"
  /\ MapGet(statusMap, <<"a">>) = "down"

====
